---- MODULE Spec2Model ----
(***************************************************************************)
(* A model of src/VidUtils.py: the three classes KeyClipWriter,            *)
(* ShortClipWriter and VideoStream, each exercised by one caller thread    *)
(* and the background threads the class itself spawns.                     *)
(*                                                                         *)
(* The three classes share no state, so one behaviour exercises one        *)
(* object: `obj` says which class was constructed, and the variables that  *)
(* carry a field name (frames, Q, recording, ...) are that object's        *)
(* fields.  Frames are the integers 1, 2, 3, ... in the order the camera   *)
(* produces them, so a frame's number is its arrival position.             *)
(*                                                                         *)
(* cv2.VideoWriter and the file system are the environment:                *)
(*   - `sinks` holds every VideoWriter constructed so far; a sink's log is *)
(*     the sequence of frames write() handed it between its construction   *)
(*     and its release();                                                  *)
(*   - a write() on a released VideoWriter stores nothing (cv2 ignores     *)
(*     it); `deadWrites` counts such calls;                                *)
(*   - `disk` is the set of output paths that exist.  Constructing a       *)
(*     VideoWriter creates the file unless the backend cannot open the    *)
(*     path (a directory that does not exist): cv2 raises nothing then,    *)
(*     and the recorder goes on handing frames to the writer.  os.remove   *)
(*     deletes the file and raises when there is none.                     *)
(***************************************************************************)
EXTENDS Integers, Sequences, FiniteSets, TLC

\* ------------------------------------------------------------------ bounds
\* Frames the camera produces in one behaviour.
MaxFrames == 3
\* Constructor argument bufSize ranges over 0..MaxBufSize.
MaxBufSize == 2
\* Constructor argument max_frames ranges over 0..MaxRecFrames.
MaxRecFrames == 2
\* start() calls in one behaviour.
MaxStarts == 2

\* Output paths a caller may pass to start().
Paths == {"p1", "p2"}

\* The value of a field that holds None where the model holds a sequence:
\* no queue holds frame 0, frames are numbered from 1.
None == <<0>>
\* None for a field that holds a path.
NoPath == "None"

VARIABLES
    obj,            \* the class constructed: "KeyClipWriter", "ShortClipWriter", "VideoStream"
    bufSize,        \* self.bufSize
    rec_max_frames, \* ShortClipWriter: self.rec_max_frames
    frames,         \* self.frames, a deque(maxlen=bufSize)
    Q,              \* self.Q, None or the queue, oldest first
    recording,      \* self.recording
    toolong,        \* ShortClipWriter: self.toolong
    outputPath,     \* self.outputPath
    writer,         \* KeyClipWriter: self.writer, 0 (None) or an index of sinks
    threads,        \* every thread spawned so far, in spawn order
    stopped,        \* VideoStream: self.stopped
    sinks,          \* every cv2.VideoWriter constructed so far
    disk,           \* the output paths that exist on disk
    deadWrites,     \* write() calls made on a released VideoWriter
    produced,       \* frames the camera has produced so far
    pc,             \* where the caller thread is inside the call it is running
    call,           \* the method the caller called last
    ret,            \* how that call ended: "ok", or the exception it raised
    session,        \* history: the recording session's state as section 3 of the spec names it
    first,          \* history: the oldest frame the camera's last bufSize frames held at the last start()
    last,           \* history: the newest frame delivered when that recording was ended
    reads,          \* history: VideoStream: the values read() has returned
    lateQueued,     \* history: VideoStream: items enqueued after stop() returned
    starts          \* history: start() calls that began a recording

vars == <<obj, bufSize, rec_max_frames, frames, Q, recording, toolong, outputPath,
          writer, threads, stopped, sinks, disk, deadWrites, produced, pc, call, ret,
          session, first, last, reads, lateQueued, starts>>

\* ------------------------------------------------------------- collections

\* collections.deque(maxlen=n).appendleft(x): x becomes element 1, and a full
\* deque drops its last element.
AppendLeft(d, x, n) ==
    IF n = 0 THEN <<>>
    ELSE IF Len(d) < n THEN <<x>> \o d
    ELSE <<x>> \o SubSeq(d, 1, n - 1)

\* Mutant of AppendRight: a full deque drops the new element, not its oldest.
AppendRight_KeepOldest(d, x, n) ==
    IF Len(d) < n THEN Append(d, x) ELSE d

\* collections.deque(maxlen=n).append(x): x becomes the last element, and a
\* full deque drops its first element.
AppendRight(d, x, n) ==
    IF n = 0 THEN <<>>
    ELSE IF Len(d) < n THEN Append(d, x)
    ELSE Append(SubSeq(d, 2, n), x)

\* Mutant of SeedQueue: the loop runs i = 1, ..., len, newest frame first.
SeedQueue_NewestFirst(d) == d

\* for i in range(len(frames), 0, -1): Q.put(frames[i - 1])
\* The queue after the loop, starting from an empty queue: the 0-based
\* frames[i - 1] is the model's d[i], for i = len, len - 1, ..., 1.
SeedQueue(d) == [i \in 1..Len(d) |-> d[Len(d) + 1 - i]]

\* A thread: its position, the frame it holds, its local framelist and its
\* local VideoWriter (0: none).  want and path are history: the frames of the
\* recording whose finish() spawned the thread, in arrival order, and the
\* output path of that recording.
Thread(p) == [pc |-> p, frame |-> 0, framelist |-> <<>>, writer |-> 0,
              want |-> <<>>, path |-> NoPath]

\* self.thread of KeyClipWriter: the thread start() spawned last, 0 for None.
thread == Len(threads)

Alive(t) == t.pc \notin {"done", "raised"}

\* cv2.VideoWriter(path, ...): a new open sink, and the file it creates.
NewSink(path) == [path |-> path, open |-> TRUE, log |-> <<>>]

\* The paths at which the video backend can create a file.  At any other (a
\* directory that does not exist) cv2.VideoWriter creates nothing and raises
\* nothing.
Writable == {"p1"}

\* The disk after cv2.VideoWriter(path, ...).
Created(path) == IF path \in Writable THEN disk \cup {path} ELSE disk

\* cv2.VideoWriter.write(frame) on sink w: stored while the sink is open.
SinkWrite(w, f) ==
    /\ sinks' = IF sinks[w].open
                THEN [sinks EXCEPT ![w].log = Append(@, f)]
                ELSE sinks
    /\ deadWrites' = IF sinks[w].open THEN deadWrites ELSE deadWrites + 1

\* cv2.VideoWriter.release() on sink w.
SinkRelease(w) == [sinks EXCEPT ![w].open = FALSE]

\* The next frame the camera delivers.
NextFrame == produced + 1

\* ---------------------------------------------------------------- history
\* The reference the claims are stated against, computed from the arrival
\* order alone.

\* The frames a, a + 1, ..., b in arrival order.
FromTo(a, b) == [i \in 1..(b - a + 1) |-> a + i - 1]

\* The oldest of the last c frames when n frames have arrived (n + 1 when
\* there is none).
OldestOf(n, c) == IF n - c + 1 > 1 THEN n - c + 1 ELSE 1

\* Sequence s, last element first.
Reverse(s) == [i \in 1..Len(s) |-> s[Len(s) + 1 - i]]

\* The last c frames of the n that have arrived, oldest first.
History(n, c) == FromTo(OldestOf(n, c), n)

\* ------------------------------------------------------------------- Init
Init ==
    /\ obj \in {"KeyClipWriter", "ShortClipWriter", "VideoStream"}
    /\ bufSize \in IF obj = "VideoStream" THEN {0} ELSE 0..MaxBufSize
    /\ rec_max_frames \in IF obj = "ShortClipWriter" THEN 0..MaxRecFrames ELSE {0}
    /\ frames = <<>>
    /\ Q = IF obj = "VideoStream" THEN <<>> ELSE None
    /\ recording = FALSE
    /\ toolong = FALSE
    /\ outputPath = NoPath
    /\ writer = 0
    /\ threads = <<>>
    /\ stopped = FALSE
    /\ sinks = <<>>
    /\ disk = {}
    /\ deadWrites = 0
    \* VideoStream.__init__ reads one frame from the camera into self.frame.
    /\ produced = IF obj = "VideoStream" THEN 1 ELSE 0
    /\ pc = "idle"
    /\ call = "init"
    /\ ret = "ok"
    /\ session = "Idle"
    /\ first = 0
    /\ last = 0
    /\ reads = <<>>
    /\ lateQueued = 0
    /\ starts = 0

\* --------------------------------------------------------- KeyClipWriter

IsKey == obj = "KeyClipWriter"

\* What the caller's calls leave alone in every KeyClipWriter step.
KeyFrame == UNCHANGED <<obj, bufSize, rec_max_frames, toolong, stopped, reads, lateQueued>>

\* The same, for the steps that are not a start().
KeyStep == KeyFrame /\ UNCHANGED starts

\* Mutant of KeyUpdateEnqueues: update() enqueues whether recording or not.
KeyUpdateEnqueues_Always == Q # None

\* if self.recording: self.Q.put(frame)
KeyUpdateEnqueues == recording

\* KeyClipWriter.update(frame)
KeyUpdate ==
    /\ IsKey /\ pc = "idle" /\ produced < MaxFrames
    /\ produced' = NextFrame
    /\ frames' = AppendLeft(frames, NextFrame, bufSize)
    /\ call' = "update"
    /\ IF KeyUpdateEnqueues
       THEN IF Q = None
            THEN /\ ret' = "AttributeError"
                 /\ Q' = Q
            ELSE /\ ret' = "ok"
                 /\ Q' = Append(Q, NextFrame)
       ELSE /\ ret' = "ok"
            /\ Q' = Q
    /\ UNCHANGED <<recording, outputPath, writer, threads, sinks, disk, deadWrites,
                   pc, session, first, last, starts>>
    /\ KeyFrame

\* The caller respects the session's life cycle: it starts a recording only
\* when no writer thread of an earlier start() is still alive.
KeyMayStart == \A i \in DOMAIN threads : ~Alive(threads[i])

\* KeyClipWriter.start(outputPath, fourcc, fps, isColor): the method itself,
\* which tests nothing before it sets the flag.
KeyStartCall(path) ==
    /\ IsKey /\ pc = "idle" /\ starts < MaxStarts
    /\ call' = "start"
    /\ recording' = TRUE
    /\ outputPath' = path
    /\ IF frames = <<>>
       THEN \* self.frames[0] raises before the VideoWriter is constructed
            /\ ret' = "IndexError"
            /\ UNCHANGED <<writer, sinks, disk, Q, threads, session, first, last, starts>>
       ELSE /\ ret' = "ok"
            /\ sinks' = Append(sinks, NewSink(path))
            /\ writer' = Len(sinks) + 1
            /\ disk' = Created(path)
            /\ Q' = SeedQueue(frames)
            /\ threads' = Append(threads, Thread("check"))
            /\ session' = "Armed"
            /\ first' = OldestOf(produced, bufSize)
            /\ last' = last
            /\ starts' = starts + 1
    /\ UNCHANGED <<frames, deadWrites, produced, pc>>
    /\ KeyFrame

\* start() as the caller of Spec makes it: with no writer thread alive.
KeyStart(path) == KeyMayStart /\ KeyStartCall(path)

\* start() as a caller may also make it: while the thread of an earlier
\* start() is still alive (no finish() or terminate() in between).
KeyStartWhileAlive(path) == ~KeyMayStart /\ KeyStartCall(path)

\* Mutant of KeyWriterExits: the loop never tests the flag.
KeyWriterExits_Never == FALSE

\* The writer thread's loop test: if not self.recording: return
KeyWriterExits == ~recording

\* KeyClipWriter.write, top of the loop.
KeyWriterCheck(t) ==
    /\ IsKey /\ t \in DOMAIN threads /\ threads[t].pc = "check"
    /\ threads' = [threads EXCEPT ![t].pc = IF KeyWriterExits THEN "done" ELSE "poll"]
    /\ UNCHANGED <<frames, Q, recording, outputPath, writer, sinks, disk, deadWrites,
                   produced, pc, call, ret, session, first, last>>
    /\ KeyStep

\* KeyClipWriter.write: if not self.Q.empty(), else time.sleep(self.timeout)
KeyWriterPoll(t) ==
    /\ IsKey /\ t \in DOMAIN threads /\ threads[t].pc = "poll"
    /\ threads' = [threads EXCEPT ![t].pc = IF Q # <<>> THEN "get" ELSE "check"]
    /\ UNCHANGED <<frames, Q, recording, outputPath, writer, sinks, disk, deadWrites,
                   produced, pc, call, ret, session, first, last>>
    /\ KeyStep

\* KeyClipWriter.write: frame = self.Q.get(), which blocks on an empty queue.
KeyWriterGet(t) ==
    /\ IsKey /\ t \in DOMAIN threads /\ threads[t].pc = "get"
    /\ Q # <<>>
    /\ threads' = [threads EXCEPT ![t].pc = "write", ![t].frame = Head(Q)]
    /\ Q' = Tail(Q)
    /\ UNCHANGED <<frames, recording, outputPath, writer, sinks, disk, deadWrites,
                   produced, pc, call, ret, session, first, last>>
    /\ KeyStep

\* KeyClipWriter.write: self.writer.write(frame)
KeyWriterWrite(t) ==
    /\ IsKey /\ t \in DOMAIN threads /\ threads[t].pc = "write"
    /\ SinkWrite(writer, threads[t].frame)
    /\ threads' = [threads EXCEPT ![t].pc = "check", ![t].frame = 0]
    /\ UNCHANGED <<frames, Q, recording, outputPath, writer, disk,
                   produced, pc, call, ret, session, first, last>>
    /\ KeyStep

\* KeyClipWriter.finish(), up to self.thread.join()
KeyFinish ==
    /\ IsKey /\ pc = "idle"
    /\ call' = "finish"
    /\ recording' = FALSE
    /\ IF thread = 0
       THEN /\ ret' = "AttributeError"
            /\ pc' = "idle"
            /\ session' = session
       ELSE /\ ret' = "running"
            /\ pc' = "finish_join"
            /\ session' = IF session = "Armed" THEN "Draining" ELSE session
    /\ last' = IF thread # 0 /\ session = "Armed" THEN produced ELSE last
    /\ UNCHANGED <<frames, Q, outputPath, writer, threads, sinks, disk, deadWrites,
                   produced, first>>
    /\ KeyStep

\* Mutant of Joined: join() does not wait for the thread.
Joined_NoWait(t) == TRUE

\* threading.Thread.join() on thread t returns once t has ended.
Joined(t) == ~Alive(threads[t])

\* KeyClipWriter.finish(): self.thread.join()
KeyFinishJoin ==
    /\ IsKey /\ pc = "finish_join"
    /\ Joined(thread)
    /\ pc' = "flush"
    /\ UNCHANGED <<frames, Q, recording, outputPath, writer, threads, sinks, disk,
                   deadWrites, produced, call, ret, session, first, last>>
    /\ KeyStep

\* Mutant of KeyFlush: flush() empties the queue without writing the frames.
KeyFlush_Discards ==
    /\ IsKey /\ pc = "flush"
    /\ Q' = <<>>
    /\ pc' = "release"
    /\ UNCHANGED <<frames, recording, outputPath, writer, threads, sinks, disk,
                   deadWrites, produced, call, ret, session, first, last>>
    /\ KeyStep

\* KeyClipWriter.flush(): one turn of its loop, or its end.
KeyFlush ==
    /\ IsKey /\ pc = "flush"
    /\ IF Q # <<>>
       THEN /\ SinkWrite(writer, Head(Q))
            /\ Q' = Tail(Q)
            /\ pc' = "flush"
       ELSE /\ UNCHANGED <<sinks, deadWrites, Q>>
            /\ pc' = "release"
    /\ UNCHANGED <<frames, recording, outputPath, writer, threads, disk,
                   produced, call, ret, session, first, last>>
    /\ KeyStep

\* KeyClipWriter.finish(): self.writer.release(), and the return.
KeyFinishRelease ==
    /\ IsKey /\ pc = "release"
    /\ sinks' = SinkRelease(writer)
    /\ pc' = "idle"
    /\ ret' = "ok"
    /\ session' = IF session = "Draining" THEN "Finished" ELSE session
    /\ UNCHANGED <<frames, Q, recording, outputPath, writer, threads, disk,
                   deadWrites, produced, call, first, last>>
    /\ KeyStep

\* KeyClipWriter.terminate(), up to self.thread.join()
KeyTerminate ==
    /\ IsKey /\ pc = "idle"
    /\ call' = "terminate"
    /\ recording' = FALSE
    /\ IF thread = 0
       THEN /\ ret' = "AttributeError"
            /\ pc' = "idle"
            /\ session' = session
       ELSE /\ ret' = "running"
            /\ pc' = "terminate_join"
            /\ session' = IF session = "Armed" THEN "Terminating" ELSE session
    /\ last' = IF thread # 0 /\ session = "Armed" THEN produced ELSE last
    /\ UNCHANGED <<frames, Q, outputPath, writer, threads, sinks, disk, deadWrites,
                   produced, first>>
    /\ KeyStep

\* KeyClipWriter.terminate(): self.thread.join()
KeyTerminateJoin ==
    /\ IsKey /\ pc = "terminate_join"
    /\ Joined(thread)
    /\ pc' = "remove"
    /\ UNCHANGED <<frames, Q, recording, outputPath, writer, threads, sinks, disk,
                   deadWrites, produced, call, ret, session, first, last>>
    /\ KeyStep

\* Mutant of Removed: the file is left in place.
Removed_Kept(path) == disk

\* The disk after os.remove(path).
Removed(path) == disk \ {path}

\* Mutant of KeyTerminateRemove: terminate() deletes the file of a recording
\* that was not finished and leaves a completed one in place.
KeyTerminateRemove_KeepsCompleted ==
    /\ IsKey /\ pc = "remove"
    /\ sinks' = SinkRelease(writer)
    /\ disk' = IF session = "Finished" THEN disk ELSE Removed(outputPath)
    /\ ret' = IF outputPath \in disk THEN "ok" ELSE "FileNotFoundError"
    /\ pc' = "idle"
    /\ session' = IF session = "Terminating" /\ outputPath \in disk
                  THEN "Terminated" ELSE session
    /\ UNCHANGED <<frames, Q, recording, outputPath, writer, threads,
                   deadWrites, produced, call, first, last>>
    /\ KeyStep

\* KeyClipWriter.terminate(): self.writer.release(), os.remove(self.outputPath)
\* and the return.  os.remove raises when the file does not exist.
KeyTerminateRemove ==
    /\ IsKey /\ pc = "remove"
    /\ sinks' = SinkRelease(writer)
    /\ disk' = Removed(outputPath)
    /\ ret' = IF outputPath \in disk THEN "ok" ELSE "FileNotFoundError"
    /\ pc' = "idle"
    /\ session' = IF session = "Terminating" /\ outputPath \in disk
                  THEN "Terminated" ELSE session
    /\ UNCHANGED <<frames, Q, recording, outputPath, writer, threads,
                   deadWrites, produced, call, first, last>>
    /\ KeyStep

\* ------------------------------------------------------- ShortClipWriter

IsShort == obj = "ShortClipWriter"

ShortFrame == UNCHANGED <<obj, bufSize, rec_max_frames, writer, stopped, reads, lateQueued>>

\* The same, for the steps that are not a start().
ShortStep == ShortFrame /\ UNCHANGED starts

\* if len(self.Q) > self.rec_max_frames
ShortTooLong == Len(Q) > rec_max_frames

\* Mutant of ShortUpdateEnqueues: update() feeds the pending sequence whenever
\* there is one, recording or not.
ShortUpdateEnqueues_Always == Q # None

\* ShortClipWriter.update: if self.recording:
ShortUpdateEnqueues == recording

\* ShortClipWriter.update(frame)
ShortUpdate ==
    /\ IsShort /\ pc = "idle" /\ produced < MaxFrames
    /\ produced' = NextFrame
    /\ frames' = AppendRight(frames, NextFrame, bufSize)
    /\ call' = "update"
    /\ ret' = "ok"
    /\ IF ShortUpdateEnqueues
       THEN IF ShortTooLong
            THEN /\ toolong' = TRUE
                 /\ Q' = Q
            ELSE /\ toolong' = toolong
                 /\ Q' = Append(Q, NextFrame)
       ELSE UNCHANGED <<toolong, Q>>
    /\ UNCHANGED <<recording, outputPath, threads, sinks, disk, deadWrites,
                   pc, session, first, last>>
    /\ ShortStep

\* The caller respects the session's life cycle: it starts a recording only
\* when none is active.
ShortMayStart == ~recording

\* self.Q = deque(); self.Q.extend(self.frames)
ShortSeed(d) == d

\* ShortClipWriter.start(output_path, fourcc, fps, is_color).  The codec
\* settings fourcc, fps and is_color are assigned here and read by write()
\* together with outputPath; outputPath stands for all four.
ShortStart(path) ==
    /\ IsShort /\ pc = "idle" /\ starts < MaxStarts
    /\ ShortMayStart
    /\ starts' = starts + 1
    /\ call' = "start"
    /\ ret' = "ok"
    /\ recording' = TRUE
    /\ toolong' = FALSE
    /\ outputPath' = path
    /\ Q' = ShortSeed(frames)
    /\ session' = "Armed"
    /\ first' = OldestOf(produced, bufSize)
    /\ last' = last
    /\ UNCHANGED <<frames, threads, sinks, disk, deadWrites, produced, pc>>
    /\ ShortFrame

\* The caller respects the session's life cycle: finish() ends an active
\* recording.
ShortMayFinish == recording

\* if not self.toolong: a writer thread is spawned
ShortFinishSpawns == ~toolong

\* ShortClipWriter.finish()
ShortFinish ==
    /\ IsShort /\ pc = "idle"
    /\ ShortMayFinish
    /\ call' = "finish"
    /\ ret' = "ok"
    /\ recording' = FALSE
    /\ threads' = IF ShortFinishSpawns
                  THEN Append(threads, [Thread("copy") EXCEPT
                                           !.want = FromTo(first, produced),
                                           !.path = outputPath])
                  ELSE threads
    /\ last' = IF session = "Armed" THEN produced ELSE last
    /\ session' = IF session = "Armed" THEN "Finished" ELSE session
    /\ UNCHANGED <<frames, Q, toolong, outputPath, sinks, disk, deadWrites,
                   produced, pc, first>>
    /\ ShortStep

\* ShortClipWriter.write: framelist = self.Q.copy()
ShortWriterCopy(t) ==
    /\ IsShort /\ t \in DOMAIN threads /\ threads[t].pc = "copy"
    /\ threads' = IF Q = None
                  THEN [threads EXCEPT ![t].pc = "raised"]
                  ELSE [threads EXCEPT ![t].pc = "open", ![t].framelist = Q]
    /\ UNCHANGED <<frames, Q, recording, toolong, outputPath, sinks, disk, deadWrites,
                   produced, pc, call, ret, session, first, last>>
    /\ ShortStep

\* The sink's log after while len(framelist) > 0: writer.write(framelist.popleft())
WriteAll(log, framelist) == log \o framelist

\* ShortClipWriter.write: writer = cv2.VideoWriter(self.outputPath, ...,
\* (framelist[0].shape[1], framelist[0].shape[0]), ...), the loop that writes
\* framelist to it, and writer.release().  framelist[0] raises on an empty
\* framelist, before the VideoWriter is constructed.  self.outputPath is read
\* when the VideoWriter is constructed; from there on the thread reads and
\* writes nothing but its locals, so no other thread can tell its turns apart.
ShortWriterOpen(t) ==
    /\ IsShort /\ t \in DOMAIN threads /\ threads[t].pc = "open"
    /\ IF threads[t].framelist = <<>>
       THEN /\ threads' = [threads EXCEPT ![t].pc = "raised"]
            /\ UNCHANGED <<sinks, disk>>
       ELSE /\ sinks' = Append(sinks, [NewSink(outputPath) EXCEPT
                            !.log = WriteAll(@, threads[t].framelist),
                            !.open = FALSE])
            /\ disk' = Created(outputPath)
            /\ threads' = [threads EXCEPT ![t].pc = "done", ![t].framelist = <<>>,
                                          ![t].writer = Len(sinks) + 1]
    /\ UNCHANGED <<frames, Q, recording, toolong, outputPath, deadWrites,
                   produced, pc, call, ret, session, first, last>>
    /\ ShortStep

\* ----------------------------------------------------------- VideoStream

IsStream == obj = "VideoStream"

StreamFrame == UNCHANGED <<obj, bufSize, rec_max_frames, frames, recording, toolong,
                           outputPath, writer, sinks, disk, deadWrites, pc, ret,
                           session, first, last, starts>>

\* The caller starts the background thread once.
StreamMayStart == threads = <<>>

\* VideoStream.start()
StreamStart ==
    /\ IsStream /\ StreamMayStart
    /\ call' = "start"
    /\ threads' = Append(threads, Thread("check"))
    /\ UNCHANGED <<Q, stopped, produced, reads, lateQueued>>
    /\ StreamFrame

\* Mutant of StreamLoopExits: the loop never tests the flag.
StreamLoopExits_Never == FALSE

\* The background thread's loop test: if self.stopped: return
StreamLoopExits == stopped

\* VideoStream.update, top of the loop.
StreamCheck(t) ==
    /\ IsStream /\ t \in DOMAIN threads /\ threads[t].pc = "check"
    /\ threads' = [threads EXCEPT ![t].pc = IF StreamLoopExits THEN "done" ELSE "read"]
    /\ UNCHANGED <<Q, stopped, produced, reads, lateQueued, call>>
    /\ StreamFrame

\* VideoStream.update: self.stream.read()[1], which may block; the camera
\* returns its next frame, or None (the model's 0) when it has none.
StreamRead(t) ==
    /\ IsStream /\ t \in DOMAIN threads /\ threads[t].pc = "read"
    /\ Len(reads) + Len(Q) < MaxFrames
    /\ \E grabbed \in BOOLEAN :
         /\ produced' = IF grabbed THEN NextFrame ELSE produced
         /\ threads' = [threads EXCEPT ![t].pc = "put",
                                       ![t].frame = IF grabbed THEN NextFrame ELSE 0]
    /\ UNCHANGED <<Q, stopped, reads, lateQueued, call>>
    /\ StreamFrame

\* What the background thread enqueues after a read of the camera.
StreamEnqueued(f) == <<f>>

\* VideoStream.update: self.Q.put(...)
StreamPut(t) ==
    /\ IsStream /\ t \in DOMAIN threads /\ threads[t].pc = "put"
    /\ Q' = Q \o StreamEnqueued(threads[t].frame)
    /\ lateQueued' = IF stopped THEN lateQueued + 1 ELSE lateQueued
    /\ threads' = [threads EXCEPT ![t].pc = "check", ![t].frame = 0]
    /\ UNCHANGED <<stopped, produced, reads, call>>
    /\ StreamFrame

\* VideoStream.read(): spins until the queue holds an item, then returns
\* the oldest one.
StreamReadCall ==
    /\ IsStream /\ Q # <<>>
    /\ call' = "read"
    /\ reads' = Append(reads, Head(Q))
    /\ Q' = Tail(Q)
    /\ UNCHANGED <<threads, stopped, produced, lateQueued>>
    /\ StreamFrame

\* VideoStream.stop()
StreamStop ==
    /\ IsStream /\ ~stopped
    /\ call' = "stop"
    /\ stopped' = TRUE
    /\ UNCHANGED <<Q, threads, produced, reads, lateQueued>>
    /\ StreamFrame

\* ------------------------------------------------------------------ Next
\* A step of a KeyClipWriter: of its caller or of a writer thread.
KeyNext ==
    \/ KeyUpdate
    \/ \E path \in Paths : KeyStart(path)
    \/ \E t \in DOMAIN threads : KeyWriterCheck(t)
    \/ \E t \in DOMAIN threads : KeyWriterPoll(t)
    \/ \E t \in DOMAIN threads : KeyWriterGet(t)
    \/ \E t \in DOMAIN threads : KeyWriterWrite(t)
    \/ KeyFinish
    \/ KeyFinishJoin
    \/ KeyFlush
    \/ KeyFinishRelease
    \/ KeyTerminate
    \/ KeyTerminateJoin
    \/ KeyTerminateRemove

Next ==
    \/ KeyNext
    \/ ShortUpdate
    \/ \E path \in Paths : ShortStart(path)
    \/ ShortFinish
    \/ \E t \in DOMAIN threads : ShortWriterCopy(t)
    \/ \E t \in DOMAIN threads : ShortWriterOpen(t)
    \/ StreamStart
    \/ \E t \in DOMAIN threads : StreamCheck(t)
    \/ \E t \in DOMAIN threads : StreamRead(t)
    \/ \E t \in DOMAIN threads : StreamPut(t)
    \/ StreamReadCall
    \/ StreamStop

Spec == Init /\ [][Next]_vars

\* A step of writer thread t of the KeyClipWriter.
KeyWriterStep(t) ==
    \/ KeyWriterCheck(t)
    \/ KeyWriterPoll(t)
    \/ KeyWriterGet(t)
    \/ KeyWriterWrite(t)

\* The steps by which a finish() or terminate() under way goes on.
KeyCallStep ==
    \/ KeyFinishJoin
    \/ KeyFlush
    \/ KeyFinishRelease
    \/ KeyTerminateJoin
    \/ KeyTerminateRemove

\* A fair scheduler: a writer thread that can run does run in the end (the
\* interpreter hands the lock on, time.sleep returns), and so does the
\* caller's thread inside a call.  Which calls the caller makes, and when,
\* stays free.
Fairness ==
    /\ \A t \in 1..MaxStarts : WF_vars(KeyWriterStep(t))
    /\ WF_vars(KeyCallStep)

\* The KeyClipWriter, with the caller of Spec, under a fair scheduler.
KeyInit == Init /\ IsKey

FairSpec == KeyInit /\ [][KeyNext]_vars /\ Fairness

\* The same program under a caller that keeps no order between the calls of
\* a KeyClipWriter: start() may come while a recording is active.
NextAnyCall ==
    \/ Next
    \/ \E path \in Paths : KeyStartWhileAlive(path)

SpecAnyCall == Init /\ [][NextAnyCall]_vars

\* ================================================================ claims

\* The VideoWriter of the KeyClipWriter's current session.
KeyLog == sinks[writer].log

\* A finish() of an Armed KeyClipWriter session has returned, and no start()
\* has begun a new session since.
KeyFinished == IsKey /\ session = "Finished"

\* C1: KeyClipWriter: once finish() has returned for a recording started on a
\* non-empty rolling history P, the sink has received exactly P followed by
\* the frames Q that update() delivered between start() and finish(): every
\* frame once, in arrival order, whatever the writer thread's interleaving.
C1_SinkReceivesPrerollThenUpdates ==
    KeyFinished => KeyLog = FromTo(first, last)

\* C1 witness: finish() has returned for a session with two pre-roll frames
\* and a frame delivered while recording.
C1_Witness ==
    /\ KeyFinished /\ call = "finish" /\ pc = "idle"
    /\ bufSize = 2 /\ first = 1 /\ last = 3
    /\ KeyLog = <<1, 2, 3>>

\* C2: KeyClipWriter.finish() is a synchronous barrier: when it has returned
\* the writer thread has ended, the pending queue is empty and the sink is
\* released, and from then on nothing is written for that session: no sink
\* changes and no write() is called, not even on the released writer.
C2_FinishIsBarrier ==
    /\ [](KeyFinished =>
            /\ ~Alive(threads[thread])
            /\ Q = <<>>
            /\ ~sinks[writer].open)
    /\ [][KeyFinished /\ session' = "Finished" =>
            sinks' = sinks /\ deadWrites' = deadWrites]_vars

\* C2 witness: finish() has just returned after the writer thread wrote frames.
C2_Witness ==
    /\ KeyFinished /\ call = "finish" /\ pc = "idle" /\ ret = "ok"
    /\ Len(KeyLog) >= 2
    /\ threads[thread].pc = "done"

\* The frames of the ShortClipWriter's current session: pre-roll plus the
\* update() calls made while recording.
ShortTotal == last - first + 1

\* C3 (refuted by the code): ShortClipWriter: when the pre-roll seeded at
\* start() plus the update() calls made while recording exceed
\* rec_max_frames, finish() leads to no sink being opened and no file being
\* produced.  Stated for the first session, before a second start(): every
\* sink and file there is then comes from that session.
C3_NoOutputOverCeiling ==
    (IsShort /\ session = "Finished" /\ starts = 1 /\ ShortTotal > rec_max_frames)
        => (sinks = <<>> /\ disk = {})

\* The frames of the recording whose finish() spawned thread t.
WantOf(t) == t.want

\* C4 (refuted by the code): ShortClipWriter: when the pre-roll plus the
\* update() calls of a recording number between 1 and rec_max_frames, the
\* writer thread its finish() spawned opens one sink, writes exactly those
\* frames in arrival order and closes the sink.
C4_WriterWritesPendingSequence ==
    IsShort =>
        \A t \in DOMAIN threads :
            (/\ Len(WantOf(threads[t])) >= 1
             /\ Len(WantOf(threads[t])) <= rec_max_frames
             /\ ~Alive(threads[t]))
            => (/\ threads[t].pc = "done"
                /\ threads[t].writer # 0
                /\ sinks[threads[t].writer].log = WantOf(threads[t])
                /\ ~sinks[threads[t].writer].open)

\* The rolling buffer, oldest frame first.
Rolling == IF IsKey THEN Reverse(frames) ELSE frames

\* C5: both recorders: the rolling buffer never holds more than bufSize
\* frames; after n update() calls, whether recording or not, it holds exactly
\* the last min(n, bufSize) frames; and a start() that begins a recording
\* seeds the pending queue with those frames, oldest first.
C5_RollingHistory ==
    /\ []((IsKey \/ IsShort) =>
            /\ Len(frames) <= bufSize
            /\ Rolling = History(produced, bufSize))
    /\ [][starts' = starts + 1 =>
            Q' = History(produced, bufSize)]_vars

\* C5 witness: a ShortClipWriter with capacity 2 has been fed 3 frames, has
\* evicted the oldest, and has just started its second recording, seeded
\* from the buffer.
C5_Witness ==
    /\ IsShort /\ bufSize = 2 /\ produced = 3
    /\ frames = <<2, 3>>
    /\ call = "start" /\ starts = 2 /\ Q = <<2, 3>>

\* No read of the camera has failed so far.
SourceNeverFailed ==
    /\ \A i \in DOMAIN reads : reads[i] # 0
    /\ \A i \in DOMAIN Q : Q[i] # 0
    /\ \A t \in DOMAIN threads : threads[t].pc = "put" => threads[t].frame # 0

\* C6 (refuted by the code): VideoStream: while the camera never fails, the
\* values read() returns are the frames the camera produced since the object
\* was constructed, from the first one on, in order, none dropped or repeated.
C6_ReadsAreTheFramesProduced ==
    (IsStream /\ SourceNeverFailed) => \A i \in DOMAIN reads : reads[i] = i

\* C7: VideoStream: after one start() and a stop(), the background thread
\* enqueues at most one item once stop() has returned, and having enqueued it
\* goes to its loop test and ends; it does not read the camera again.
C7_AtMostOneLateItem ==
    IsStream =>
        /\ lateQueued <= 1
        /\ \A t \in DOMAIN threads :
              lateQueued = 1 => threads[t].pc \in {"check", "done"}

\* C7 witness: the thread was inside the camera read when stop() returned,
\* enqueued that one frame and has ended.
C7_Witness ==
    /\ IsStream /\ stopped /\ lateQueued = 1
    /\ threads # <<>> /\ threads[1].pc = "done"

\* A terminate() of an Armed KeyClipWriter session has returned, and no
\* start() has begun a new session since.
KeyTerminated == IsKey /\ session = "Terminated"

\* C8: KeyClipWriter.terminate() on an Armed recorder: when it has returned
\* the writer thread has ended, the sink is released and the output path does
\* not exist; the frames then pending in the queue are not in the sink and
\* the sink never changes afterwards.
C8_TerminateDiscards ==
    /\ [](KeyTerminated =>
            /\ ~Alive(threads[thread])
            /\ ~sinks[writer].open
            /\ outputPath \notin disk
            /\ \A i \in DOMAIN Q : \A j \in DOMAIN KeyLog : Q[i] # KeyLog[j])
    /\ [][KeyTerminated /\ session' = "Terminated" => sinks' = sinks]_vars

\* C8 witness: terminate() has returned with frames still pending.
C8_Witness ==
    /\ KeyTerminated /\ call = "terminate" /\ pc = "idle" /\ ret = "ok"
    /\ Len(Q) >= 2

\* C9: KeyClipWriter: a finish() called again after finish() has returned,
\* with any update() calls in between, opens no sink and calls write() on
\* none: every step of the repeated call leaves the sinks as they are.
C9_SecondFinishWritesNothing ==
    [][(KeyFinished /\ call' = "finish" /\ session' = "Finished") =>
          (sinks' = sinks /\ deadWrites' = deadWrites /\ writer' = writer)]_vars

\* C9 witness: a second finish() has returned after an update() that
\* followed the first.
C9_Witness ==
    /\ KeyFinished /\ call = "finish" /\ pc = "idle" /\ ret = "ok"
    /\ produced > last

\* C10 (refuted by the code): KeyClipWriter: a start() that fails because
\* the rolling history is empty leaves the recorder Idle, not recording and
\* with no writer thread, and no later update() fails.
C10_FailedStartLeavesIdle ==
    IsKey =>
        /\ (call = "start" /\ ret = "IndexError") => (~recording /\ thread = 0)
        /\ ~(call = "update" /\ ret = "AttributeError")

\* C11 (refuted by the code): KeyClipWriter.terminate() on an Armed recorder
\* returns normally even when the output file cannot be deleted because it
\* does not exist: the failure is not raised to the caller.
C11_TerminateNeverRaises ==
    ~(/\ IsKey /\ session = "Terminating"
      /\ call = "terminate" /\ pc = "idle" /\ ret = "FileNotFoundError")

\* C12 (refuted by the code): ShortClipWriter: the writer thread of each
\* finish() works on its own session whatever the scheduling: the sequence
\* it copies is the pending sequence of the session whose finish() spawned
\* it, and the sink it opens is at that session's output path, never the
\* sequence or the path a later start() has put in their place.
C12_WritersIndependentPerTrigger ==
    IsShort =>
        \A t \in DOMAIN threads :
            /\ threads[t].pc = "open" => threads[t].framelist = threads[t].want
            /\ threads[t].writer # 0 =>
                    /\ sinks[threads[t].writer].path = threads[t].path
                    /\ sinks[threads[t].writer].log = threads[t].want

\* The writer threads of the KeyClipWriter that have not returned.
KeyAlive == {t \in DOMAIN threads : Alive(threads[t])}

\* C13 (refuted by the code): KeyClipWriter: whatever the order of start(),
\* update(), finish() and terminate(), a start() during an active recording
\* included, at most one writer thread is alive.
C13_AtMostOneWriterThread ==
    IsKey => Cardinality(KeyAlive) <= 1

\* C14 as the specification states it: KeyClipWriter: once finish() has moved
\* the session to Draining, the writer thread exits only in a state where the
\* pending channel is empty; it never exits while frames are still pending.
C14_ThreadExitsOnlyWhenDrained ==
    [][(/\ IsKey /\ session = "Draining"
        /\ Alive(threads[thread]) /\ ~Alive(threads'[thread]))
       => Q = <<>>]_vars

\* The frame the writer thread has taken from the queue and not yet written.
KeyHeld ==
    IF threads[thread].pc = "write" THEN <<threads[thread].frame>> ELSE <<>>

\* C14 (amended): KeyClipWriter: once finish() has moved the session to
\* Draining the writer thread exits at its next loop test, whether or not
\* frames are still pending; finish() then writes the frames still pending
\* itself, in flush(), before it closes the sink.  So all through Draining
\* the sink's log, the frame the thread holds and the pending channel
\* together are the session's frames in arrival order: none is lost.
C14_PendingAtExitIsFlushed ==
    (IsKey /\ session = "Draining") =>
        /\ KeyLog \o KeyHeld \o Q = FromTo(first, last)
        /\ pc \in {"flush", "release"} => ~Alive(threads[thread])

\* C14's case: the thread has exited in Draining with frames still pending.
C14_Witness ==
    /\ IsKey /\ session = "Draining" /\ pc = "finish_join"
    /\ ~Alive(threads[thread])
    /\ Len(Q) >= 2

\* C15 (refuted by the code): ShortClipWriter: in every reachable state the
\* pending sequence holds at most rec_max_frames frames; a frame that arrives
\* when it holds that many is dropped.
C15_PendingAtMostCeiling ==
    (IsShort /\ Q # None) => Len(Q) <= rec_max_frames

\* C16: both recorders: an update() made while not recording (before any
\* start(), after finish() or terminate()) appends the frame to the rolling
\* history and does nothing else: the pending channel or sequence, the
\* overflow flag, the sinks and the files are as they were, and the call
\* does not fail.
C16_UpdateWhileNotRecording ==
    [][((IsKey \/ IsShort) /\ ~recording /\ produced' # produced) =>
          /\ Rolling' = History(produced', bufSize)
          /\ Q' = Q /\ toolong' = toolong
          /\ sinks' = sinks /\ disk' = disk /\ deadWrites' = deadWrites
          /\ threads' = threads
          /\ call' = "update" /\ ret' = "ok"]_vars

\* C16's case: a frame has arrived after finish(), with a pending sequence
\* left from the recording.
C16_Witness ==
    /\ IsShort /\ session = "Finished" /\ ~recording
    /\ call = "update" /\ produced > last
    /\ Q # None /\ Q # <<>>

\* C17 (refuted by the code): VideoStream: on a cycle where the source
\* reports no frame the acquisition thread enqueues nothing, so neither the
\* queue nor what read() has returned ever holds a missing (None) frame.
C17_MissEnqueuesNothing ==
    IsStream =>
        /\ \A i \in DOMAIN Q : Q[i] # 0
        /\ \A i \in DOMAIN reads : reads[i] # 0

\* What the file at path p holds once the ShortClipWriter's threads are done:
\* the frames written to the VideoWriter constructed on p last, each
\* construction starting the file anew.
SinksAt(p) == {i \in DOMAIN sinks : sinks[i].path = p}
ShortOutput(p) ==
    IF SinksAt(p) = {} THEN <<>>
    ELSE sinks[CHOOSE i \in SinksAt(p) : \A j \in SinksAt(p) : j <= i].log

\* A second session has been finished on a path of its own, it held frames
\* and did not overflow, and every writer thread has ended.
ShortSecondDone ==
    /\ IsShort /\ session = "Finished" /\ starts = 2
    /\ ~toolong /\ first <= last
    /\ \A t \in DOMAIN threads :
          /\ ~Alive(threads[t])
          /\ t < Len(threads) => threads[t].path # outputPath

\* C18 (refuted by the code, through C12): a recorder is reusable with no
\* carry-over: the output of a second session is exactly the rolling history
\* at the second start() followed by the updates made during the second
\* session, whatever the first session left behind (frames pending at a
\* terminate(), an overflow).
C18_SecondSessionOutput ==
    /\ (KeyFinished /\ starts = 2) =>
            (KeyLog = FromTo(first, last) /\ writer = Len(sinks))
    /\ ShortSecondDone => ShortOutput(outputPath) = FromTo(first, last)

\* C19: KeyClipWriter: under a fair scheduler every finish() returns: the
\* writer thread sees the cleared flag after at most the write or the sleep
\* it is in and exits, never blocked on the queue it alone consumes, and
\* flush() has finitely many frames to write.
C19_FinishTerminates ==
    (IsKey /\ call = "finish" /\ pc # "idle") ~> (pc = "idle")

\* C19's case: a finish() that had to wait for the thread and then flushed
\* frames has returned.
C19_Witness ==
    /\ IsKey /\ call = "finish" /\ pc = "idle" /\ ret = "ok"
    /\ session = "Finished"
    /\ Len(KeyLog) >= 3

\* C20 as the specification states it: KeyClipWriter: once finish() has
\* returned, no later update(), finish() or terminate() made before the next
\* start() removes or rewrites the output file of the session.
C20_CompletedClipIsDurable ==
    [][(KeyFinished /\ session' = "Finished") =>
          (disk' = disk /\ sinks' = sinks)]_vars

\* C20 (amended): KeyClipWriter: once finish() has returned, no later
\* update() or finish() made before the next start() removes or rewrites the
\* output file of the session; a later terminate() rewrites nothing and
\* deletes the file, as it does for a recording it aborts.
C20_CompletedClipKeptUntilTerminate ==
    [][(KeyFinished /\ session' = "Finished") =>
          /\ sinks' = sinks
          /\ IF pc = "remove"
             THEN outputPath \notin disk'
             ELSE disk' = disk]_vars

\* C20's case: the file of a finished session is in place after a later
\* update() and a second finish().
C20_Witness ==
    /\ KeyFinished /\ outputPath \in disk
    /\ call = "finish" /\ pc = "idle" /\ produced > last
    /\ Len(KeyLog) >= 1

====
